---------------------------- MODULE Spec2Model ----------------------------
(***************************************************************************)
(* Table column/row resizing of prosemirror-tables (src/src/tableNodes.ts) *)
(* as a state machine: the plugin's ResizeState, the document holding one  *)
(* table, the window listeners of a drag, and the DOM event handlers.      *)
(***************************************************************************)
EXTENDS Integers, Sequences, FiniteSets, TLC

(***************************************************************************)
(* Bounds of the model.                                                    *)
(***************************************************************************)
\* nodeSize of a cell: open token, one empty paragraph, close token
CellSize == 4
\* rendered width / height of one grid slot, in pixels
ColPx == 20
RowPx == 20
\* largest number of document changes made by others in a session
MaxEdits == 1
\* largest number of drags begun in a session
MaxDrags == 1
\* largest size of the content in front of the table
MaxPre == 1
\* largest dimension a drag is observed at
MaxDim == 30

(***************************************************************************)
(* Plugin options (columnResizing's defaults).                             *)
(***************************************************************************)
minSize == 5
cellMin == 25

\* the tables of a session start with two columns and two rows
MaxWidth == 2 + MaxEdits

Undefined == "undefined"
Max(a, b) == IF a >= b THEN a ELSE b

(***************************************************************************)
(* The document: `pre` tokens of content, then one table node.  A table is *)
(* a sequence of rows, a row a sequence of cells, a cell its attributes    *)
(* (colwidth <<>> is null).  Positions are ProseMirror token offsets.      *)
(***************************************************************************)
Cell(cs, rs, cw) == [colspan |-> cs, rowspan |-> rs, colwidth |-> cw]

PlainCell == Cell(1, 1, <<>>)

RowSize(row) == 2 + Len(row) * CellSize

RECURSIVE RowStart(_, _)
\* offset of row r (1-based) in the table's content
RowStart(tbl, r) == IF r = 1 THEN 0 ELSE RowStart(tbl, r - 1) + RowSize(tbl[r - 1])

\* position of the i-th cell of row r, relative to the table's start
CellPos(tbl, r, i) == RowStart(tbl, r) + 1 + (i - 1) * CellSize

\* <<row, index>> of every cell of the table
CellIds(tbl) == {ri \in (1..Len(tbl)) \X (1..MaxWidth) : ri[2] <= Len(tbl[ri[1]])}

CellPositions(tbl) == {CellPos(tbl, ri[1], ri[2]) : ri \in CellIds(tbl)}

\* table.nodeAt(pos) for a cell position
NodeAt(tbl, pos) ==
    LET r == CHOOSE k \in 1..Len(tbl) :
                 RowStart(tbl, k) < pos /\ pos < RowStart(tbl, k) + RowSize(tbl[k])
    IN tbl[r][(pos - RowStart(tbl, r) - 1) \div CellSize + 1]

\* $cell.start(-1): the position where the table's content starts
TableStart(d) == d.pre + 1

\* pointsAtCell($pos): the parent is a row and a node follows
pointsAtCell(d, pos) == (pos - TableStart(d)) \in CellPositions(d.table)

(***************************************************************************)
(* TableMap: the dense grid of a table.                                    *)
(***************************************************************************)
RECURSIVE SumColspan(_, _)
SumColspan(row, i) == IF i = 0 THEN 0 ELSE SumColspan(row, i - 1) + row[i].colspan

\* columns of row r taken by cells of earlier rows spanning down into it
SpanInto(tbl, r) ==
    LET ids == {ri \in CellIds(tbl) :
                    ri[1] < r /\ ri[1] + tbl[ri[1]][ri[2]].rowspan > r}
        RECURSIVE Sum(_)
        Sum(S) == IF S = {} THEN 0
                  ELSE LET x == CHOOSE y \in S : TRUE
                       IN tbl[x[1]][x[2]].colspan + Sum(S \ {x})
    IN Sum(ids)

RECURSIVE findWidthOfCells(_, _)
\* findWidth counting only the cells of the row itself
findWidthOfCells(tbl, r) ==
    IF r = 0 THEN 0
    ELSE Max(findWidthOfCells(tbl, r - 1), SumColspan(tbl[r], Len(tbl[r])))

RECURSIVE findWidth(_, _)
findWidth(tbl, r) ==
    IF r = 0 THEN 0
    ELSE Max(findWidth(tbl, r - 1), SumColspan(tbl[r], Len(tbl[r])) + SpanInto(tbl, r))

\* the slots (0-based indices) a cell placed at slot p fills
Slots(p, cell, width, height) ==
    {q \in 0..(width * height - 1) :
        \E h \in 0..(cell.rowspan - 1), w \in 0..(cell.colspan - 1) :
            q = p + h * width + w}

RECURSIVE NextFree(_, _)
NextFree(m, p) == IF p >= Len(m) \/ m[p + 1] = 0 THEN p ELSE NextFree(m, p + 1)

RECURSIVE computeMap(_, _, _, _, _, _)
computeMap(tbl, width, r, i, m, mapPos) ==
    IF r > Len(tbl) THEN m
    ELSE IF i > Len(tbl[r]) THEN computeMap(tbl, width, r + 1, 1, m, r * width)
    ELSE LET p == NextFree(m, mapPos)
             filled == Slots(p, tbl[r][i], width, Len(tbl))
             m2 == [q \in 1..Len(m) |->
                       IF (q - 1) \in filled /\ m[q] = 0
                       THEN CellPos(tbl, r, i) ELSE m[q]]
         IN computeMap(tbl, width, r, i + 1, m2, p + tbl[r][i].colspan)

TableMapGet(tbl) ==
    LET width == findWidth(tbl, Len(tbl))
        height == Len(tbl)
    IN [width |-> width, height |-> height,
        map |-> computeMap(tbl, width, 1, 1, [q \in 1..(width * height) |-> 0], 0)]

\* TableMap.get($cell.node(-1)) for the table of the document
TableMapOf(d) == TableMapGet(d.table)

\* map.map[index], 0-based
MapAt(map, index) == map.map[index + 1]

\* map.map.indexOf(pos)
RECURSIVE IndexFrom(_, _, _)
IndexFrom(m, pos, q) ==
    IF q > Len(m) THEN -1 ELSE IF m[q] = pos THEN q - 1 ELSE IndexFrom(m, pos, q + 1)

IndexOf(map, pos) == IndexFrom(map.map, pos, 1)

colCount(map, pos) == IndexOf(map, pos) % map.width

rowCount(map, pos) == IndexOf(map, pos) \div map.width

(***************************************************************************)
(* Position mapping of a transaction (StepMap.map / Mapping.map).  A step  *)
(* map is a sequence of ranges <<start, oldSize, newSize>>.                *)
(***************************************************************************)
RECURSIVE StepMapPos(_, _, _, _, _)
StepMapPos(ranges, i, diff, pos, assoc) ==
    IF i > Len(ranges) THEN pos + diff
    ELSE LET start == ranges[i][1]
             oldSize == ranges[i][2]
             newSize == ranges[i][3]
             end == start + oldSize
         IN IF start > pos THEN pos + diff
            ELSE IF pos <= end
                 THEN LET side == IF oldSize = 0 THEN assoc
                                  ELSE IF pos = start THEN -1
                                  ELSE IF pos = end THEN 1 ELSE assoc
                      IN start + diff + (IF side < 0 THEN 0 ELSE newSize)
                 ELSE StepMapPos(ranges, i + 1, diff + newSize - oldSize, pos, assoc)

RECURSIVE MappingMap(_, _, _, _)
MappingMap(maps, i, pos, assoc) ==
    IF i > Len(maps) THEN pos
    ELSE MappingMap(maps, i + 1, StepMapPos(maps[i], 1, 0, pos, assoc), assoc)

(***************************************************************************)
(* ResizeState and its reducer.                                            *)
(***************************************************************************)
DragFalse == [tag |-> "false"]
DragNull == [tag |-> "null"]
Dragging(startPosition, startDimension) ==
    [tag |-> "drag", startPosition |-> startPosition, startDimension |-> startDimension]

\* JavaScript truthiness of the dragging field
IsDragging(dragging) == dragging.tag = "drag"

ResizeState(activeHandle, dragging, position) ==
    [activeHandle |-> activeHandle, dragging |-> dragging, position |-> position]

NoMeta == [kind |-> "none"]
SetHandleMeta(value, positionCell) ==
    [kind |-> "setHandle", setHandle |-> value, setPosition |-> positionCell]
SetDraggingMeta(dragging, positionCell) ==
    [kind |-> "setDragging", setDragging |-> dragging, setPosition |-> positionCell]

\* a transaction: its plugin meta, its step maps and the document it yields
Tr(meta, maps, newDoc) == [meta |-> meta, mapping |-> maps, doc |-> newDoc]

docChanged(tr) == Len(tr.mapping) > 0

apply(state, tr) ==
    IF tr.meta.kind = "setHandle"
    THEN ResizeState(tr.meta.setHandle, DragFalse, tr.meta.setPosition)
    ELSE IF tr.meta.kind = "setDragging"
    THEN ResizeState(state.activeHandle, tr.meta.setDragging, tr.meta.setPosition)
    ELSE IF state.activeHandle > -1 /\ docChanged(tr)
    THEN LET mapped == MappingMap(tr.mapping, 1, state.activeHandle, -1)
             handle == IF pointsAtCell(tr.doc, mapped) THEN mapped ELSE -1
         IN ResizeState(handle, state.dragging, Undefined)
    ELSE state

(***************************************************************************)
(* Rendered geometry: every grid slot is ColPx wide and RowPx high, the    *)
(* table's top-left corner is the origin of the client coordinates.        *)
(***************************************************************************)
\* event.target's cell (domCellAround), 0 when the pointer is on no cell
domCellAround(map, x, y) ==
    IF 0 <= x /\ x < map.width * ColPx /\ 0 <= y /\ y < map.height * RowPx
    THEN MapAt(map, (y \div RowPx) * map.width + (x \div ColPx))
    ELSE 0

\* target.getBoundingClientRect()
getBoundingClientRect(tbl, map, pos) ==
    LET index == IndexOf(map, pos)
        attrs == NodeAt(tbl, pos)
        left == (index % map.width) * ColPx
        top == (index \div map.width) * RowPx
    IN [left |-> left, right |-> left + attrs.colspan * ColPx,
        top |-> top, bottom |-> top + attrs.rowspan * RowPx]

\* edgeCell returning the cell under the pointer on every side
edgeCellOwnCell(d, map, x, y, side, minSz) ==
    LET start == TableStart(d)
        offset == IF side \in {"right", "bottom"} THEN -minSz ELSE minSz
        cell == domCellAround(map,
                    x + (IF side \in {"left", "right"} THEN offset ELSE 0),
                    y + (IF side \in {"top", "bottom"} THEN offset ELSE 0))
    IN IF cell = 0 THEN -1 ELSE start + cell

edgeCell(d, map, x, y, side, minSz) ==
    LET start == TableStart(d)
        offset == IF side \in {"right", "bottom"} THEN -minSz ELSE minSz
        cell == domCellAround(map,
                    x + (IF side \in {"left", "right"} THEN offset ELSE 0),
                    y + (IF side \in {"top", "bottom"} THEN offset ELSE 0))
        index == IndexOf(map, cell)
    IN IF cell = 0 THEN -1
       ELSE IF side \in {"right", "bottom"} THEN start + cell
       ELSE IF side = "top"
            THEN (IF index < map.width THEN -1 ELSE start + MapAt(map, index - map.width))
            ELSE (IF index % map.width = 0 THEN -1 ELSE start + MapAt(map, index - 1))

\* the hit test of handleMouseMove: the located cell and axis
HitTest(d, map, x, y, minSz) ==
    LET target == domCellAround(map, x, y)
        rect == getBoundingClientRect(d.table, map, target)
    IN IF target = 0 THEN [cell |-> -1, positionCell |-> Undefined]
       ELSE IF x - rect.left <= minSz
            THEN [cell |-> edgeCell(d, map, x, y, "left", minSz), positionCell |-> "col"]
       ELSE IF rect.right - x <= minSz
            THEN [cell |-> edgeCell(d, map, x, y, "right", minSz), positionCell |-> "col"]
       ELSE IF rect.top - y >= -minSz
            THEN [cell |-> edgeCell(d, map, x, y, "top", minSz), positionCell |-> "row"]
       ELSE IF y - rect.bottom >= -minSz
            THEN [cell |-> edgeCell(d, map, x, y, "bottom", minSz), positionCell |-> "row"]
       ELSE [cell |-> -1, positionCell |-> Undefined]

\* the grid column handleMouseMove compares with the last one
TrailingCol(d, map, cell) ==
    colCount(map, cell - TableStart(d)) + NodeAt(d.table, cell - TableStart(d)).colspan - 1

(***************************************************************************)
(* Dimensions.                                                             *)
(***************************************************************************)
RECURSIVE SumSet(_, _)
\* the sum of the truthy entries among the first i of colwidth
SumSet(colwidth, i) == IF i = 0 THEN 0 ELSE SumSet(colwidth, i - 1) + colwidth[i]

\* the number of falsy entries among the first colspan of colwidth
PartsLeft(attrs) ==
    IF attrs.colwidth = <<>> THEN attrs.colspan
    ELSE attrs.colspan - Cardinality({i \in 1..attrs.colspan : attrs.colwidth[i] # 0})

\* the measured offsetWidth values for which currentColWidth is a whole number
ExactWidth(attrs, offsetWidth) ==
    IF attrs.colwidth # <<>> /\ attrs.colwidth[Len(attrs.colwidth)] # 0 THEN TRUE
    ELSE (offsetWidth - SumSet(attrs.colwidth, Len(attrs.colwidth))) % PartsLeft(attrs) = 0

currentColWidth(attrs, offsetWidth) ==
    IF attrs.colwidth # <<>> /\ attrs.colwidth[Len(attrs.colwidth)] # 0
    THEN attrs.colwidth[Len(attrs.colwidth)]
    ELSE (offsetWidth - SumSet(attrs.colwidth, Len(attrs.colwidth))) \div PartsLeft(attrs)

\* a cell has no rowheight attribute: the measured height is split over the rows
currentColHeight(attrs, offsetHeight) == offsetHeight \div attrs.rowspan

\* draggedDimension without the lower limit
draggedDimensionUnclamped(position, dragging, x, y, cellMn) ==
    dragging.startDimension
        + (IF position = "col" THEN x - dragging.startPosition
           ELSE y - dragging.startPosition)

draggedDimension(position, dragging, x, y, cellMn) ==
    LET offset == IF position = "col" THEN x - dragging.startPosition
                  ELSE y - dragging.startPosition
    IN Max(cellMn, dragging.startDimension + offset)

zeroes(n) == [i \in 1..n |-> 0]

\* tr.setNodeMarkup(start + pos, null, attrs) on a cell of the table
setNodeMarkup(tbl, pos, attrs) ==
    LET ri == CHOOSE x \in CellIds(tbl) : CellPos(tbl, x[1], x[2]) = pos
    IN [tbl EXCEPT ![ri[1]][ri[2]] = attrs]

\* the step map of a setNodeMarkup: the open and the close token are replaced
MarkupStepMap(at) == << <<at, 1, 1>>, <<at + CellSize - 1, 1, 1>> >>

RECURSIVE updateColumnWidthRowsAllEntries(_, _, _, _, _, _, _)
\* the loop of updateColumnWidth writing the width to every entry of the cell
updateColumnWidthRowsAllEntries(table, map, start, col, width, row, tr) ==
    IF row >= map.height THEN tr
    ELSE LET mapIndex == row * map.width + col
             pos == MapAt(map, mapIndex)
             attrs == NodeAt(table, pos)
             next == [table |-> setNodeMarkup(tr.table, pos,
                                    [attrs EXCEPT !.colwidth =
                                        [j \in 1..attrs.colspan |-> width]]),
                      maps |-> Append(tr.maps, MarkupStepMap(start + pos))]
         IN IF row > 0 /\ MapAt(map, mapIndex) = MapAt(map, mapIndex - map.width)
            THEN updateColumnWidthRowsAllEntries(table, map, start, col, width, row + 1, tr)
            ELSE IF attrs.colwidth # <<>>
                    /\ \A j \in 1..attrs.colspan : attrs.colwidth[j] = width
            THEN updateColumnWidthRowsAllEntries(table, map, start, col, width, row + 1, tr)
            ELSE updateColumnWidthRowsAllEntries(table, map, start, col, width, row + 1, next)

RECURSIVE updateColumnWidthRowsAlways(_, _, _, _, _, _, _)
\* the loop of updateColumnWidth without the comparison with the stored width
updateColumnWidthRowsAlways(table, map, start, col, width, row, tr) ==
    IF row >= map.height THEN tr
    ELSE LET mapIndex == row * map.width + col
             pos == MapAt(map, mapIndex)
             attrs == NodeAt(table, pos)
             index == IF attrs.colspan = 1 THEN 0 ELSE col - colCount(map, pos)
             colwidth == IF attrs.colwidth # <<>> THEN attrs.colwidth
                         ELSE zeroes(attrs.colspan)
             next == [table |-> setNodeMarkup(tr.table, pos,
                                    [attrs EXCEPT !.colwidth =
                                        [colwidth EXCEPT ![index + 1] = width]]),
                      maps |-> Append(tr.maps, MarkupStepMap(start + pos))]
         IN IF row > 0 /\ MapAt(map, mapIndex) = MapAt(map, mapIndex - map.width)
            THEN updateColumnWidthRowsAlways(table, map, start, col, width, row + 1, tr)
            ELSE updateColumnWidthRowsAlways(table, map, start, col, width, row + 1, next)

RECURSIVE updateColumnWidthRowsEveryRow(_, _, _, _, _, _, _)
\* the loop of updateColumnWidth without the skip of a cell spanning down
\* from the row above
updateColumnWidthRowsEveryRow(table, map, start, col, width, row, tr) ==
    IF row >= map.height THEN tr
    ELSE LET mapIndex == row * map.width + col
             pos == MapAt(map, mapIndex)
             attrs == NodeAt(table, pos)
             index == IF attrs.colspan = 1 THEN 0 ELSE col - colCount(map, pos)
             colwidth == IF attrs.colwidth # <<>> THEN attrs.colwidth
                         ELSE zeroes(attrs.colspan)
             next == [table |-> setNodeMarkup(tr.table, pos,
                                    [attrs EXCEPT !.colwidth =
                                        [colwidth EXCEPT ![index + 1] = width]]),
                      maps |-> Append(tr.maps, MarkupStepMap(start + pos))]
         IN IF attrs.colwidth # <<>> /\ attrs.colwidth[index + 1] = width
            THEN updateColumnWidthRowsEveryRow(table, map, start, col, width, row + 1, tr)
            ELSE updateColumnWidthRowsEveryRow(table, map, start, col, width, row + 1, next)

RECURSIVE updateColumnWidthRows(_, _, _, _, _, _, _)
\* the loop of updateColumnWidth over the grid rows, from `row` on
updateColumnWidthRows(table, map, start, col, width, row, tr) ==
    IF row >= map.height THEN tr
    ELSE LET mapIndex == row * map.width + col
             pos == MapAt(map, mapIndex)
             attrs == NodeAt(table, pos)
             index == IF attrs.colspan = 1 THEN 0 ELSE col - colCount(map, pos)
             colwidth == IF attrs.colwidth # <<>> THEN attrs.colwidth
                         ELSE zeroes(attrs.colspan)
             next == [table |-> setNodeMarkup(tr.table, pos,
                                    [attrs EXCEPT !.colwidth =
                                        [colwidth EXCEPT ![index + 1] = width]]),
                      maps |-> Append(tr.maps, MarkupStepMap(start + pos))]
         IN IF row > 0 /\ MapAt(map, mapIndex) = MapAt(map, mapIndex - map.width)
            THEN updateColumnWidthRows(table, map, start, col, width, row + 1, tr)
            ELSE IF attrs.colwidth # <<>> /\ attrs.colwidth[index + 1] = width
            THEN updateColumnWidthRows(table, map, start, col, width, row + 1, tr)
            ELSE updateColumnWidthRows(table, map, start, col, width, row + 1, next)

\* the transaction updateColumnWidth builds for the cell at `cell`
updateColumnWidth(d, cell, width) ==
    LET map == TableMapGet(d.table)
        start == TableStart(d)
        col == colCount(map, cell - start) + NodeAt(d.table, cell - start).colspan - 1
        out == updateColumnWidthRows(d.table, map, start, col, width, 0,
                                     [table |-> d.table, maps |-> <<>>])
    IN Tr(NoMeta, out.maps, [d EXCEPT !.table = out.table])

(***************************************************************************)
(* The state.                                                              *)
(***************************************************************************)
VARIABLES
    doc,                  \* view.state.doc: [pre, table]
    pluginState,          \* columnResizingPluginKey.getState(view.state)
    listeners,            \* pairs of mouseup/mousemove listeners on the window
    lastColumnResizable,  \* the option columnResizing was created with
    drags,                \* drags begun so far
    edits,                \* document changes made by others so far
    commits,              \* runs of updateColumnWidth completed so far
    ev                    \* the event handled last and what its handler did

vars == <<doc, pluginState, listeners, lastColumnResizable, drags, edits, commits, ev>>

NoEdit == [kind |-> "none", at |-> 0, size |-> 0]

EvNone ==
    [type |-> "init", which |-> 1, cell |-> -1, positionCell |-> Undefined,
     dispatches |-> 0, commits |-> 0, thrown |-> FALSE, handled |-> FALSE,
     x |-> 0, y |-> 0, dimension |-> 0, edit |-> NoEdit]

(***************************************************************************)
(* The handlers.  Each yields the plugin state (and document) it leaves    *)
(* and what it did on the way.                                             *)
(***************************************************************************)
\* updateHandle: dispatch a transaction carrying setHandle
updateHandle(state, d, value, positionCell) ==
    apply(state, Tr(SetHandleMeta(value, positionCell), <<>>, d))

\* handleMouseMove once the hit test has located `hit`
\* handleMouseMove without the comparison of the hit cell with the stored edge
handleMouseMoveAlwaysDispatches(state, d, map, hit, lastColResizable) ==
    IF IsDragging(state.dragging)
    THEN [state |-> state, dispatches |-> 0, cell |-> -1, positionCell |-> Undefined]
    ELSE [state |-> updateHandle(state, d, hit.cell, hit.positionCell),
          dispatches |-> 1, cell |-> hit.cell, positionCell |-> hit.positionCell]

\* handleMouseMove that only ever sets an edge and never clears one
handleMouseMoveKeepsEdge(state, d, map, hit, lastColResizable) ==
    IF IsDragging(state.dragging) \/ hit.cell = state.activeHandle \/ hit.cell = -1
    THEN [state |-> state, dispatches |-> 0, cell |-> hit.cell,
          positionCell |-> hit.positionCell]
    ELSE [state |-> updateHandle(state, d, hit.cell, hit.positionCell),
          dispatches |-> 1, cell |-> hit.cell, positionCell |-> hit.positionCell]

\* handleMouseMove without the lastColumnResizable test
handleMouseMoveAnyColumn(state, d, map, hit, lastColResizable) ==
    IF IsDragging(state.dragging)
    THEN [state |-> state, dispatches |-> 0, cell |-> -1, positionCell |-> Undefined]
    ELSE IF hit.cell = state.activeHandle
    THEN [state |-> state, dispatches |-> 0, cell |-> hit.cell,
          positionCell |-> hit.positionCell]
    ELSE [state |-> updateHandle(state, d, hit.cell, hit.positionCell),
          dispatches |-> 1, cell |-> hit.cell, positionCell |-> hit.positionCell]

handleMouseMove(state, d, map, hit, lastColResizable) ==
    LET same == [state |-> state, dispatches |-> 0, cell |-> hit.cell,
                 positionCell |-> hit.positionCell]
    IN IF IsDragging(state.dragging)
       THEN [state |-> state, dispatches |-> 0, cell |-> -1, positionCell |-> Undefined]
       ELSE IF hit.cell = state.activeHandle THEN same
       ELSE IF ~lastColResizable /\ hit.cell # -1
               /\ TrailingCol(d, map, hit.cell) = map.width - 1
       THEN same
       ELSE [same EXCEPT !.state = updateHandle(state, d, hit.cell, hit.positionCell),
                         !.dispatches = 1]

\* handleMouseLeave without the test that no drag is in progress
handleMouseLeaveWhileDragging(state, d) ==
    IF state.activeHandle > -1
    THEN [state |-> updateHandle(state, d, -1, Undefined), dispatches |-> 1]
    ELSE [state |-> state, dispatches |-> 0]

handleMouseLeave(state, d) ==
    IF state.activeHandle > -1 /\ ~IsDragging(state.dragging)
    THEN [state |-> updateHandle(state, d, -1, Undefined), dispatches |-> 1]
    ELSE [state |-> state, dispatches |-> 0]

\* handleMouseDown anchoring every drag at the horizontal coordinate
handleMouseDownAlwaysX(state, d, x, y, offsetWidth, offsetHeight) ==
    IF state.activeHandle = -1 \/ IsDragging(state.dragging)
    THEN [state |-> state, dispatches |-> 0, attached |-> 0, handled |-> FALSE]
    ELSE LET attrs == NodeAt(d.table, state.activeHandle - TableStart(d))
             startDimension == IF state.position = "col"
                               THEN currentColWidth(attrs, offsetWidth)
                               ELSE currentColHeight(attrs, offsetHeight)
         IN [state |-> apply(state,
                          Tr(SetDraggingMeta(Dragging(x, startDimension),
                                             state.position), <<>>, d)),
             dispatches |-> 1, attached |-> 1, handled |-> TRUE]

handleMouseDown(state, d, x, y, offsetWidth, offsetHeight) ==
    IF state.activeHandle = -1 \/ IsDragging(state.dragging)
    THEN [state |-> state, dispatches |-> 0, attached |-> 0, handled |-> FALSE]
    ELSE LET attrs == NodeAt(d.table, state.activeHandle - TableStart(d))
             width == currentColWidth(attrs, offsetWidth)
             height == currentColHeight(attrs, offsetHeight)
             startCoord == IF state.position = "col" THEN x ELSE y
             startDimension == IF state.position = "col" THEN width ELSE height
         IN [state |-> apply(state,
                          Tr(SetDraggingMeta(Dragging(startCoord, startDimension),
                                             state.position), <<>>, d)),
             dispatches |-> 1, attached |-> 1, handled |-> TRUE]

\* finish that clears the drag without running updateColumnWidth
finishWithoutCommit(state, d, x, y, cellMn) ==
    IF ~IsDragging(state.dragging)
    THEN [state |-> state, doc |-> d, removed |-> 1, dispatches |-> 0,
          commits |-> 0, thrown |-> FALSE, dimension |-> 0]
    ELSE [state |-> apply(state, Tr(SetDraggingMeta(DragNull, Undefined), <<>>, d)),
          doc |-> d, removed |-> 1, dispatches |-> 1, commits |-> 0, thrown |-> FALSE,
          dimension |-> draggedDimension(state.position, state.dragging, x, y, cellMn)]

\* the mouseup listener of a drag; doc.resolve(-1) raises a RangeError
finish(state, d, x, y, cellMn) ==
    LET width == draggedDimension(state.position, state.dragging, x, y, cellMn)
        tr == updateColumnWidth(d, state.activeHandle, width)
        committed == IF docChanged(tr) THEN apply(state, tr) ELSE state
    IN IF ~IsDragging(state.dragging)
       THEN [state |-> state, doc |-> d, removed |-> 1, dispatches |-> 0,
             commits |-> 0, thrown |-> FALSE, dimension |-> 0]
       ELSE IF state.activeHandle = -1
       THEN [state |-> state, doc |-> d, removed |-> 1, dispatches |-> 0,
             commits |-> 0, thrown |-> TRUE, dimension |-> width]
       ELSE [state |-> apply(committed,
                          Tr(SetDraggingMeta(DragNull, Undefined), <<>>, tr.doc)),
             doc |-> tr.doc, removed |-> 1,
             dispatches |-> (IF docChanged(tr) THEN 2 ELSE 1),
             commits |-> 1, thrown |-> FALSE, dimension |-> width]

\* move that writes the previewed dimension to the document on every event
moveCommitting(state, d, x, y, which, cellMn) ==
    LET width == draggedDimension(state.position, state.dragging, x, y, cellMn)
        tr == updateColumnWidth(d, state.activeHandle, width)
    IN IF which = 0 \/ ~IsDragging(state.dragging) \/ state.activeHandle = -1
       THEN finish(state, d, x, y, cellMn)
       ELSE [state |-> IF docChanged(tr) THEN apply(state, tr) ELSE state,
             doc |-> tr.doc, removed |-> 0,
             dispatches |-> (IF docChanged(tr) THEN 1 ELSE 0),
             commits |-> 1, thrown |-> FALSE, dimension |-> width]

\* the mousemove listener of a drag
move(state, d, x, y, which, cellMn) ==
    IF which = 0 THEN finish(state, d, x, y, cellMn)
    ELSE [state |-> state, doc |-> d, removed |-> 0, dispatches |-> 0, commits |-> 0,
          thrown |-> IsDragging(state.dragging) /\ state.activeHandle = -1,
          dimension |-> IF IsDragging(state.dragging)
                        THEN draggedDimension(state.position, state.dragging, x, y, cellMn)
                        ELSE 0]

(***************************************************************************)
(* Inputs: pointer coordinates sampled near the leading edge, in the       *)
(* middle and near the trailing edge of every grid slot, and outside the   *)
(* table; measured cell sizes; the tables a session starts with.           *)
(***************************************************************************)
XCoords == {c * ColPx + o : c \in 0..(MaxWidth - 1), o \in {0, ColPx \div 2, ColPx - minSize}}

YCoords == {r * RowPx + o : r \in 0..1, o \in {0, RowPx \div 2, RowPx - minSize}}

XMid == {c * ColPx + ColPx \div 2 : c \in 0..(MaxWidth - 1)}

YMid == {r * RowPx + RowPx \div 2 : r \in 0..1}

\* every x at mid height, every y at mid width, the corners of the first slot
\* and a point outside the table
Points == (XCoords \X YMid) \cup (XMid \X YCoords)
          \cup ({0, ColPx - minSize} \X {0, RowPx - minSize})
          \cup {<<-ColPx, -RowPx>>}

\* positions of the pointer while a button is pressed: x and y always differ
DragPoints == {<<ColPx \div 2, RowPx>>, <<ColPx, RowPx \div 2>>}

OffsetWidths == {2 * ColPx}

OffsetHeights == {2 * RowPx}

PlainRow == <<PlainCell, PlainCell>>

InitTables ==
    { <<PlainRow, PlainRow>>,
      << <<Cell(2, 1, <<>>)>>, PlainRow >>,
      << <<Cell(1, 2, <<>>), PlainCell>>, <<PlainCell>> >> }

\* the state after columnResizing(options) and the plugin state's init
InitWith(lastColResizable) ==
    /\ doc \in {[pre |-> 0, table |-> t] : t \in InitTables}
    /\ pluginState = ResizeState(-1, DragFalse, Undefined)
    /\ listeners = 0
    /\ lastColumnResizable = lastColResizable
    /\ drags = 0
    /\ edits = 0
    /\ commits = 0
    /\ ev = EvNone

\* the default options: lastColumnResizable = true
Init == InitWith(TRUE)

\* columnResizing({lastColumnResizable: false})
InitFixedLast == InitWith(FALSE)

(***************************************************************************)
(* Pointer events.                                                         *)
(***************************************************************************)
\* mousemove on the editor (handleDOMEvents.mousemove)
MouseMove ==
    LET map == TableMapOf(doc)
    IN \E hit \in {HitTest(doc, map, p[1], p[2], minSize) : p \in Points} :
        LET r == handleMouseMove(pluginState, doc, map, hit, lastColumnResizable)
        IN /\ pluginState' = r.state
           /\ ev' = [EvNone EXCEPT !.type = "mousemove", !.cell = r.cell,
                                   !.positionCell = r.positionCell,
                                   !.dispatches = r.dispatches]
           /\ UNCHANGED <<doc, listeners, lastColumnResizable, drags, edits, commits>>

\* mouseleave on the editor (handleDOMEvents.mouseleave)
MouseLeave ==
    LET r == handleMouseLeave(pluginState, doc)
    IN /\ pluginState' = r.state
       /\ ev' = [EvNone EXCEPT !.type = "mouseleave", !.dispatches = r.dispatches]
       /\ UNCHANGED <<doc, listeners, lastColumnResizable, drags, edits, commits>>

\* mousedown on the editor (handleDOMEvents.mousedown)
MouseDown ==
    \E p \in DragPoints, w \in OffsetWidths, h \in OffsetHeights :
        /\ pluginState.activeHandle > -1 =>
               ExactWidth(NodeAt(doc.table, pluginState.activeHandle - TableStart(doc)), w)
        /\ LET x == p[1]
               y == p[2]
               r == handleMouseDown(pluginState, doc, x, y, w, h)
           IN /\ drags + r.attached <= MaxDrags
              /\ drags' = drags + r.attached
              /\ pluginState' = r.state
              /\ listeners' = listeners + r.attached
              /\ ev' = [EvNone EXCEPT !.type = "mousedown", !.handled = r.handled,
                                      !.dispatches = r.dispatches,
                                      !.x = IF r.handled THEN x ELSE 0,
                                      !.y = IF r.handled THEN y ELSE 0]
              /\ UNCHANGED <<doc, lastColumnResizable, edits, commits>>

\* mouseup on the window, while the listeners of a drag are attached
MouseUp ==
    \E p \in DragPoints :
        /\ listeners > 0
        /\ LET x == p[1]
               y == p[2]
               r == finish(pluginState, doc, x, y, cellMin)
           IN /\ r.dimension <= MaxDim
              /\ pluginState' = r.state
              /\ doc' = r.doc
              /\ listeners' = listeners - r.removed
              /\ ev' = [EvNone EXCEPT !.type = "mouseup", !.dispatches = r.dispatches,
                                      !.commits = r.commits, !.thrown = r.thrown,
                                      !.dimension = r.dimension, !.x = x, !.y = y]
              /\ commits' = commits + r.commits
              /\ UNCHANGED <<lastColumnResizable, drags, edits>>

\* mousemove on the window, while the listeners of a drag are attached
Move ==
    \E p \in DragPoints, which \in {0, 1} :
        /\ listeners > 0
        /\ LET x == p[1]
               y == p[2]
               r == move(pluginState, doc, x, y, which, cellMin)
           IN /\ r.dimension <= MaxDim
              /\ pluginState' = r.state
              /\ doc' = r.doc
              /\ listeners' = listeners - r.removed
              /\ ev' = [EvNone EXCEPT !.type = "move", !.which = which,
                                      !.dispatches = r.dispatches,
                                      !.commits = r.commits, !.thrown = r.thrown,
                                      !.dimension = r.dimension,
                                      !.x = IF which = 0 THEN x ELSE 0,
                                      !.y = IF which = 0 THEN y ELSE 0]
              /\ commits' = commits + r.commits
              /\ UNCHANGED <<lastColumnResizable, drags, edits>>

(***************************************************************************)
(* Document changes made by others (typing, commands, remote edits): each  *)
(* is one transaction dispatched to the view.                              *)
(***************************************************************************)
DocChange(tr, edit) ==
    /\ edits < MaxEdits
    /\ edits' = edits + 1
    /\ pluginState' = apply(pluginState, tr)
    /\ doc' = tr.doc
    /\ ev' = [EvNone EXCEPT !.type = "docchange", !.edit = edit]
    /\ UNCHANGED <<listeners, lastColumnResizable, drags, commits>>

\* content of size n is inserted in front of the table
InsertBefore ==
    \E n \in 1..MaxPre :
        /\ doc.pre + n <= MaxPre
        /\ DocChange(Tr(NoMeta, << << <<0, 0, n>> >> >>, [doc EXCEPT !.pre = doc.pre + n]),
                     [kind |-> "insertBefore", at |-> 0, size |-> n])

\* the grid row r is deleted; no cell spans into or out of it
DeleteRow ==
    \E r \in 1..Len(doc.table) :
        LET map == TableMapGet(doc.table)
            at == TableStart(doc) + RowStart(doc.table, r)
        IN /\ Len(doc.table) >= 2
           /\ \A c \in 0..(map.width - 1) :
                  NodeAt(doc.table, MapAt(map, (r - 1) * map.width + c)).rowspan = 1
           /\ DocChange(Tr(NoMeta, << << <<at, RowSize(doc.table[r]), 0>> >> >>,
                           [doc EXCEPT !.table =
                               [k \in 1..(Len(doc.table) - 1) |->
                                   IF k < r THEN doc.table[k] ELSE doc.table[k + 1]]]),
                        [kind |-> "deleteRow", at |-> r, size |-> RowSize(doc.table[r])])

\* a column of plain cells is inserted before grid column c of a table without
\* spans: one insertion per row, top to bottom
InsertColumn ==
    \E c \in 0..(MaxWidth - 1) :
        LET tbl == doc.table
            width == TableMapGet(tbl).width
        IN /\ c < width
           /\ width < MaxWidth
           /\ \A ri \in CellIds(tbl) :
                  tbl[ri[1]][ri[2]].colspan = 1 /\ tbl[ri[1]][ri[2]].rowspan = 1
           /\ DocChange(Tr(NoMeta,
                           [r \in 1..Len(tbl) |->
                               << <<TableStart(doc) + CellPos(tbl, r, c + 1)
                                        + (r - 1) * CellSize, 0, CellSize>> >>],
                           [doc EXCEPT !.table =
                               [r \in 1..Len(tbl) |->
                                   [i \in 1..(Len(tbl[r]) + 1) |->
                                       IF i <= c THEN tbl[r][i]
                                       ELSE IF i = c + 1 THEN PlainCell
                                       ELSE tbl[r][i - 1]]]]),
                        [kind |-> "insertColumn", at |-> c, size |-> CellSize])

Next ==
    \/ MouseMove
    \/ MouseLeave
    \/ MouseDown
    \/ MouseUp
    \/ Move
    \/ InsertBefore
    \/ DeleteRow
    \/ InsertColumn

Spec == Init /\ [][Next]_vars

SpecFixedLast == InitFixedLast /\ [][Next]_vars

(***************************************************************************)
(* The states of the resize machine (spec 4.3) and what the claims use.    *)
(***************************************************************************)
Idle == pluginState.activeHandle = -1 /\ ~IsDragging(pluginState.dragging)

Hover == pluginState.activeHandle > -1 /\ ~IsDragging(pluginState.dragging)

DraggingState == pluginState.activeHandle > -1 /\ IsDragging(pluginState.dragging)

\* the event is a release: mouseup, or a move reporting no pressed button
IsRelease(e) == e.type = "mouseup" \/ (e.type = "move" /\ e.which = 0)

\* the event is a move of the window listener with a button pressed
IsPressedMove(e) == e.type = "move" /\ e.which = 1

\* C1: the resize state is always one of Idle, Hover or Dragging: a drag
\* anchor is recorded only while an active edge is set.
C1_IdleHoverOrDragging == Idle \/ Hover \/ DraggingState

\* C2 as stated: a release received while Dragging commits the live
\* dimension and leaves the machine in Idle, with no active edge set.
C2_ReleaseLeavesIdle ==
    [][(DraggingState /\ IsRelease(ev')) =>
           (ev'.commits = 1 /\ pluginState'.activeHandle = -1
            /\ ~IsDragging(pluginState'.dragging))]_vars

\* C2 as amended: a release received while Dragging runs the redistribution
\* once with the live dimension max(cellMin, anchorDimension + (coordinate -
\* anchorCoordinate)), after which, for a column edge, the cell of the active
\* edge stores it in its last width entry; the drag is cleared, the listeners
\* are gone, and the active edge stays set: the machine is left in Hover.
C2_ReleaseCommitsAndKeepsEdge ==
    [][(DraggingState /\ IsRelease(ev')) =>
           LET coordinate == IF pluginState.position = "col" THEN ev'.x ELSE ev'.y
               live == Max(cellMin, pluginState.dragging.startDimension
                                    + (coordinate - pluginState.dragging.startPosition))
               attrs == NodeAt(doc'.table, pluginState'.activeHandle - TableStart(doc'))
           IN /\ ev'.commits = 1
              /\ ev'.dimension = live
              /\ ~IsDragging(pluginState'.dragging)
              /\ pluginState'.activeHandle = pluginState.activeHandle
              /\ pluginState.position = "col" =>
                     (attrs.colwidth # <<>> /\ attrs.colwidth[attrs.colspan] = live)
              /\ listeners' = 0]_vars

\* C2 witness: a mouseup has ended a drag, committed, and the edge is still set.
C2_Witness ==
    /\ ev.type = "mouseup" /\ ev.commits = 1 /\ ev.dispatches = 2
    /\ Hover /\ pluginState.dragging = DragNull

\* C3: a drag gesture is committed exactly once: no commit while its
\* listeners are attached, one commit when it has ended, never more commits
\* than drags; a move with a button pressed dispatches and commits nothing,
\* and only a release commits.
C3_OneCommitPerDrag ==
    /\ commits <= drags
    /\ listeners > 0 => commits = drags - 1
    /\ (listeners = 0 /\ ~IsDragging(pluginState.dragging)) => commits = drags
    /\ IsPressedMove(ev) => (ev.dispatches = 0 /\ ev.commits = 0)
    /\ ev.commits > 0 => (IsRelease(ev) /\ ev.commits = 1)

\* C3 witness: a drag has been released and committed, and a later event
\* has been handled without a second commit.
C3_Witness ==
    /\ drags = 1 /\ commits = 1 /\ listeners = 0
    /\ ev.type \in {"mousemove", "mousedown", "docchange"}

\* C4: listeners are attached if and only if a drag is in progress, and at
\* most one pair is attached.
C4_ListenersIffDragging ==
    /\ listeners <= 1
    /\ (listeners > 0) <=> IsDragging(pluginState.dragging)

\* the position in document d2 of the cell that document d has at pos, after
\* the edit made by another party; -1 when the edit deleted the cell
MovedCell(d, pos, edit, d2) ==
    LET ri == CHOOSE c \in CellIds(d.table) :
                  CellPos(d.table, c[1], c[2]) = pos - TableStart(d)
        r2 == IF edit.kind = "deleteRow" /\ ri[1] > edit.at THEN ri[1] - 1 ELSE ri[1]
        i2 == IF edit.kind = "insertColumn" /\ ri[2] - 1 >= edit.at THEN ri[2] + 1
              ELSE ri[2]
    IN IF edit.kind = "deleteRow" /\ ri[1] = edit.at THEN -1
       ELSE TableStart(d2) + CellPos(d2.table, r2, i2)

\* C5: when the document changes while an edge is active, the active edge
\* follows its cell: it moves to the cell's new position, and it is cleared
\* when the cell is gone.
C5_EdgeFollowsCell ==
    [][(ev'.type = "docchange" /\ pluginState.activeHandle > -1) =>
           pluginState'.activeHandle
               = MovedCell(doc, pluginState.activeHandle, ev'.edit, doc')]_vars

\* C6: a document change during a drag that invalidates the active edge
\* cancels the drag, leaving Idle, and no later pointer move or release
\* raises an error.
C6_InvalidatedDragIsCancelled ==
    /\ [][(IsDragging(pluginState.dragging) /\ pluginState.activeHandle > -1
           /\ ev'.type = "docchange" /\ pluginState'.activeHandle = -1)
              => ~IsDragging(pluginState'.dragging)]_vars
    /\ [](ev.type \in {"move", "mouseup"} => ~ev.thrown)

\* C7: while a drag is recorded, a pointer move or a pointer leave over the
\* editor, and a move of the drag listener with a button pressed, leave the
\* stored state and the document unchanged and dispatch nothing.
C7_DragIgnoresMoveAndLeave ==
    [][(IsDragging(pluginState.dragging)
        /\ (ev'.type \in {"mousemove", "mouseleave"} \/ IsPressedMove(ev')))
           => (pluginState' = pluginState /\ doc' = doc /\ ev'.dispatches = 0)]_vars

\* C7 witness: the pointer has left the editor during a drag with an active edge.
C7_Witness == DraggingState /\ ev.type = "mouseleave"

\* C8: in Hover, a pointer leave, and a pointer move whose hit test finds no
\* cell edge, lead to Idle.
C8_HoverLeavesToIdle ==
    [][(Hover /\ (ev'.type = "mouseleave" \/ (ev'.type = "mousemove" /\ ev'.cell = -1)))
           => (pluginState'.activeHandle = -1
               /\ ~IsDragging(pluginState'.dragging))]_vars

\* C8 witness: a pointer move that hit no edge has cleared an active edge.
C8_Witness ==
    /\ ev.type = "mousemove" /\ ev.cell = -1 /\ ev.positionCell = Undefined
    /\ ev.dispatches = 1 /\ Idle

\* C9: outside a drag, a pointer move whose hit test gives the stored edge
\* and axis again dispatches nothing and leaves the stored state unchanged.
C9_SameHitIsSilent ==
    [][(~IsDragging(pluginState.dragging) /\ ev'.type = "mousemove"
        /\ ev'.cell = pluginState.activeHandle
        /\ ev'.positionCell = pluginState.position)
           => (ev'.dispatches = 0 /\ pluginState' = pluginState)]_vars

\* C9 witness: a pointer move has hit the edge that was already active.
C9_Witness ==
    /\ ev.type = "mousemove" /\ Hover /\ ev.cell = pluginState.activeHandle
    /\ ev.positionCell = pluginState.position /\ ev.dispatches = 0

\* the cell at pos occupies a slot of the last grid column of document d
InLastColumn(d, pos) ==
    LET map == TableMapOf(d)
    IN \E r \in 0..(map.height - 1) :
           MapAt(map, r * map.width + map.width - 1) = pos - TableStart(d)

\* C10: with lastColumnResizable = false, a pointer move that hits an edge of
\* a cell ending in the last grid column is suppressed: nothing is
\* dispatched and the stored state is unchanged, so no pointer move makes
\* such a cell the active edge.
C10_LastColumnSuppressed ==
    [][(~lastColumnResizable /\ ev'.type = "mousemove") =>
           /\ (~IsDragging(pluginState.dragging) /\ ev'.cell # -1
               /\ InLastColumn(doc, ev'.cell))
                  => (ev'.dispatches = 0 /\ pluginState' = pluginState)
           /\ (pluginState'.activeHandle # pluginState.activeHandle
               /\ pluginState'.activeHandle # -1)
                  => ~InLastColumn(doc', pluginState'.activeHandle)]_vars

\* C10 witness: a hit on a cell of the last column, other than the stored
\* edge, has been suppressed.
C10_Witness ==
    /\ ~lastColumnResizable /\ ev.type = "mousemove" /\ ev.cell # -1
    /\ ev.cell # pluginState.activeHandle /\ InLastColumn(doc, ev.cell)
    /\ ev.dispatches = 0 /\ ~IsDragging(pluginState.dragging)

(***************************************************************************)
(* Parsing a cell from markup (schema): attribute values are sequences of  *)
(* characters, <<>> standing for an absent or empty attribute.             *)
(***************************************************************************)
DigitOf ==
    ("0" :> 0) @@ ("1" :> 1) @@ ("2" :> 2) @@ ("3" :> 3) @@ ("4" :> 4) @@
    ("5" :> 5) @@ ("6" :> 6) @@ ("7" :> 7) @@ ("8" :> 8) @@ ("9" :> 9)

\* /^\d+$/ on a sequence of characters
IsDigits(s) == Len(s) > 0 /\ \A i \in 1..Len(s) : s[i] \in DOMAIN DigitOf

RECURSIVE NumberOf(_)
\* Number(s) for a string of decimal digits
NumberOf(s) ==
    IF s = <<>> THEN 0
    ELSE NumberOf(SubSeq(s, 1, Len(s) - 1)) * 10 + DigitOf[s[Len(s)]]

RECURSIVE Split(_)
\* s.split(',')
Split(s) ==
    IF \A i \in 1..Len(s) : s[i] # "," THEN <<s>>
    ELSE LET i == CHOOSE j \in 1..Len(s) :
                      s[j] = "," /\ \A k \in 1..(j - 1) : s[k] # ","
         IN <<SubSeq(s, 1, i - 1)>> \o Split(SubSeq(s, i + 1, Len(s)))

\* /^\d+(,\d+)*$/.test(widthAttr)
MatchesWidths(s) == \A i \in 1..Len(Split(s)) : IsDigits(Split(s)[i])

\* getCellAttrs for a td / th element without extra attributes; the spans
\* are absent or strings of digits
getCellAttrsWithoutLengthTest(dom) ==
    LET widthAttr == dom.colwidth
        widths == IF widthAttr # <<>> /\ MatchesWidths(widthAttr)
                  THEN [i \in 1..Len(Split(widthAttr)) |-> NumberOf(Split(widthAttr)[i])]
                  ELSE <<>>
    IN Cell(NumberOf(IF dom.colspan = <<>> THEN <<"1">> ELSE dom.colspan),
            NumberOf(IF dom.rowspan = <<>> THEN <<"1">> ELSE dom.rowspan),
            widths)

getCellAttrs(dom) ==
    LET widthAttr == dom.colwidth
        widths == IF widthAttr # <<>> /\ MatchesWidths(widthAttr)
                  THEN [i \in 1..Len(Split(widthAttr)) |-> NumberOf(Split(widthAttr)[i])]
                  ELSE <<>>
        rowspan == NumberOf(IF dom.rowspan = <<>> THEN <<"1">> ELSE dom.rowspan)
        colspan == NumberOf(IF dom.colspan = <<>> THEN <<"1">> ELSE dom.colspan)
    IN Cell(colspan, rowspan,
            IF widths # <<>> /\ Len(widths) = colspan THEN widths ELSE <<>>)

\* a td element
Td(colspan, rowspan, colwidth) ==
    [colspan |-> colspan, rowspan |-> rowspan, colwidth |-> colwidth]

PlainTd == Td(<<>>, <<>>, <<>>)

\* the tables parsed from markup that the functions below are applied to
DomTables ==
    { \* 2x2, cell (0,0) spans both columns
      << <<Td(<<"2">>, <<>>, <<>>)>>, <<PlainTd, PlainTd>> >>,
      \* a cell spanning three columns with stored widths, over three cells
      << <<Td(<<"3">>, <<"1">>, <<"1", "0", ",", "2", "0", ",", "3", "0">>)>>,
         <<PlainTd, Td(<<>>, <<>>, <<"4", "0">>), PlainTd>> >>,
      \* a cell spanning two rows
      << <<Td(<<>>, <<"2">>, <<>>), PlainTd>>, <<Td(<<>>, <<>>, <<"x">>)>> >>,
      \* a cell spanning 2 columns x 2 rows inside a 3x3 grid
      << <<Td(<<"2">>, <<"2">>, <<"6", "0", ",", "0">>), PlainTd>>, <<PlainTd>>,
         <<PlainTd, PlainTd, PlainTd>> >>,
      \* width lists that do not fit the span, or are not numbers
      << <<Td(<<"2">>, <<>>, <<"1", "0", "0">>)>>,
         <<Td(<<>>, <<>>, <<"8", "0", ",", "9", "0">>), Td(<<>>, <<>>, <<"8", ",">>)>>,
         <<Td(<<"1">>, <<"1">>, <<"7", "0">>), PlainTd>> >> }

\* parseDOM of table, tr and td
ParseTable(dom) ==
    [r \in 1..Len(dom) |-> [i \in 1..Len(dom[r]) |-> getCellAttrs(dom[r][i])]]

\* the dimensions a redistribution is asked for
Widths == {150, 60}

\* the number of redistributions applied to one document
MaxResizes == 2

InitParsed ==
    /\ doc \in {[pre |-> n, table |-> ParseTable(dom)] : n \in 0..MaxPre, dom \in DomTables}
    /\ pluginState = ResizeState(-1, DragFalse, Undefined)
    /\ listeners = 0
    /\ lastColumnResizable = TRUE
    /\ drags = 0
    /\ edits = 0
    /\ commits = 0
    /\ ev = EvNone

\* updateColumnWidth applied to a cell of the table with a dimension
Redistribute ==
    \E cell \in {TableStart(doc) + pos : pos \in CellPositions(doc.table)}, width \in Widths :
        LET tr == updateColumnWidth(doc, cell, width)
        IN /\ commits < MaxResizes
           /\ doc' = tr.doc
           /\ commits' = commits + 1
           /\ ev' = [type |-> "redistribute", cell |-> cell, dimension |-> width,
                     dispatches |-> (IF docChanged(tr) THEN 1 ELSE 0),
                     updates |-> [i \in 1..Len(tr.mapping) |-> tr.mapping[i][1][1]]]
           /\ UNCHANGED <<pluginState, listeners, lastColumnResizable, drags, edits>>

SpecRedistribute == InitParsed /\ [][Redistribute]_vars

\* the cell at table position pos occupies a slot of grid column k
Occupies(d, pos, k) ==
    LET map == TableMapOf(d)
    IN \E r \in 0..(map.height - 1) : MapAt(map, r * map.width + k) = pos

\* the first and the last grid column of the cell at table position pos
FirstColumn(d, pos) ==
    CHOOSE k \in 0..(TableMapOf(d).width - 1) :
        Occupies(d, pos, k) /\ \A j \in 0..(k - 1) : ~Occupies(d, pos, j)

LastColumn(d, pos) ==
    CHOOSE k \in 0..(TableMapOf(d).width - 1) :
        Occupies(d, pos, k) /\ \A j \in (k + 1)..(TableMapOf(d).width - 1) : ~Occupies(d, pos, j)

\* the grid column a redistribution for the cell at document position cell is for
TargetColumn(d, cell) == LastColumn(d, cell - TableStart(d))

\* entry j (from 1) of a cell's width sequence, 0 when unset
Entry(attrs, j) == IF attrs.colwidth = <<>> THEN 0 ELSE attrs.colwidth[j]

\* C11: a redistribution for grid column k changes, in a cell spanning k,
\* only the width entry at the cell's local index for k; the other entries,
\* the spans, and every cell that does not span k are unchanged.
C11_OnlyTargetEntryChanges ==
    [][ev'.type = "redistribute" =>
           LET k == TargetColumn(doc, ev'.cell)
           IN \A ri \in CellIds(doc.table) :
                  LET old == doc.table[ri[1]][ri[2]]
                      new == doc'.table[ri[1]][ri[2]]
                      pos == CellPos(doc.table, ri[1], ri[2])
                  IN /\ new.colspan = old.colspan /\ new.rowspan = old.rowspan
                     /\ ~Occupies(doc, pos, k) => new = old
                     /\ \A j \in 1..old.colspan :
                            j # k - FirstColumn(doc, pos) + 1
                                => Entry(new, j) = Entry(old, j)]_vars

\* C11 witness: the middle column under a cell spanning three columns was
\* resized, and the cell keeps its first and third width.
C11_Witness ==
    /\ ev.type = "redistribute" /\ ev.dimension = 150 /\ ev.dispatches = 1
    /\ Len(doc.table[1]) = 1
    /\ doc.table[1][1].colwidth = <<10, 150, 30>>

\* every cell occupying grid column k stores w at its local index for k
AllStore(d, k, w) ==
    \A ri \in CellIds(d.table) :
        LET pos == CellPos(d.table, ri[1], ri[2])
            attrs == d.table[ri[1]][ri[2]]
        IN Occupies(d, pos, k) =>
               (attrs.colwidth # <<>> /\ attrs.colwidth[k - FirstColumn(d, pos) + 1] = w)

\* C12: a redistribution whose target column already stores the dimension
\* in every cell, as after the same redistribution, issues no transaction
\* and leaves the document unchanged.
C12_RedistributionIdempotent ==
    [][ev'.type = "redistribute" =>
           /\ AllStore(doc, TargetColumn(doc, ev'.cell), ev'.dimension)
                  => (ev'.dispatches = 0 /\ doc' = doc)
           /\ (ev.type = "redistribute" /\ ev.cell = ev'.cell
               /\ ev.dimension = ev'.dimension)
                  => (ev'.dispatches = 0 /\ doc' = doc)]_vars

\* C12 witness: the second of two redistributions found the dimension stored.
C12_Witness ==
    /\ ev.type = "redistribute" /\ ev.dispatches = 0 /\ commits = 2
    /\ AllStore(doc, TargetColumn(doc, ev.cell), ev.dimension)

\* the 2x2 grid whose cell (0,0) has colspan 2 and no explicit widths
Grid2x2 == << <<Cell(2, 1, <<>>)>>, <<PlainCell, PlainCell>> >>

\* C13 as stated: in that grid, resizing grid column 0 to 150 sets the
\* width sequence of cell (0,0) to [150, unset] and leaves cells (1,0) and
\* (1,1) untouched.
C13_RowBelowUntouched ==
    [][(doc.table = Grid2x2 /\ ev'.type = "redistribute" /\ ev'.dimension = 150
        /\ TargetColumn(doc, ev'.cell) = 0) =>
           /\ doc'.table[1][1].colwidth = <<150, 0>>
           /\ doc'.table[2][1] = doc.table[2][1]
           /\ doc'.table[2][2] = doc.table[2][2]]_vars

\* C13 as amended: in that grid, resizing grid column 0 to 150 sets the
\* width sequence of cell (0,0) to [150, unset] and that of cell (1,0), which
\* lies in column 0 too, to [150]; cell (1,1) is untouched.
C13_ColumnZeroResized ==
    [][(doc.table = Grid2x2 /\ ev'.type = "redistribute" /\ ev'.dimension = 150
        /\ TargetColumn(doc, ev'.cell) = 0) =>
           /\ doc'.table[1][1] = Cell(2, 1, <<150, 0>>)
           /\ doc'.table[2][1] = Cell(1, 1, <<150>>)
           /\ doc'.table[2][2] = doc.table[2][2]]_vars

\* C13 witness: column 0 of the 2x2 grid has been resized to 150.
C13_Witness ==
    /\ ev.type = "redistribute" /\ ev.dimension = 150 /\ commits = 1
    /\ doc.table = << <<Cell(2, 1, <<150, 0>>)>>, <<Cell(1, 1, <<150>>), PlainCell>> >>

(***************************************************************************)
(* Decorations: the positions of the handle widgets, in the order pushed.  *)
(***************************************************************************)
RECURSIVE DecorationsFromPerSlot(_, _, _, _, _)
\* the loop of handleDecorations without the test of the slot before
DecorationsFromPerSlot(d, map, position, line, n) ==
    LET last == IF position = "col" THEN map.height ELSE map.width
        index == IF position = "col" THEN line + n * map.width - 1
                 ELSE (line - 1) * map.width + n
        outer == IF position = "col" THEN line = map.width ELSE line = map.height
        across == IF position = "col" THEN index + 1 ELSE index + map.width
        rest == DecorationsFromPerSlot(d, map, position, line, n + 1)
    IN IF n >= last THEN <<>>
       ELSE IF outer \/ MapAt(map, index) # MapAt(map, across)
            THEN <<TableStart(d) + MapAt(map, index) + CellSize - 1>> \o rest
            ELSE rest

RECURSIVE DecorationsFrom(_, _, _, _, _)
\* the loop of handleDecorations over the rows (col axis, line = col) or the
\* columns (row axis, line = row), from step n on
DecorationsFrom(d, map, position, line, n) ==
    LET start == TableStart(d)
        last == IF position = "col" THEN map.height ELSE map.width
        index == IF position = "col" THEN line + n * map.width - 1
                 ELSE (line - 1) * map.width + n
        outer == IF position = "col" THEN line = map.width ELSE line = map.height
        across == IF position = "col" THEN index + 1 ELSE index + map.width
        before == IF position = "col" THEN index - map.width ELSE index - 1
        cellPos == MapAt(map, index)
        rest == DecorationsFrom(d, map, position, line, n + 1)
    IN IF n >= last THEN <<>>
       ELSE IF (outer \/ MapAt(map, index) # MapAt(map, across))
               /\ (n = 0 \/ MapAt(map, index) # MapAt(map, before))
            THEN <<start + cellPos + CellSize - 1>> \o rest
            ELSE rest

handleDecorations(d, cell, position) ==
    LET map == TableMapOf(d)
        pos == cell - TableStart(d)
        attrs == NodeAt(d.table, pos)
    IN IF position = "col"
       THEN DecorationsFrom(d, map, "col", colCount(map, pos) + attrs.colspan, 0)
       ELSE IF position = "row"
       THEN DecorationsFrom(d, map, "row", rowCount(map, pos) + attrs.rowspan, 0)
       ELSE <<>>

\* props.decorations for an active edge on a cell of the table
Decorate ==
    \E cell \in {TableStart(doc) + pos : pos \in CellPositions(doc.table)},
       position \in {"col", "row", Undefined} :
        /\ ev' = [type |-> "decorations", cell |-> cell, positionCell |-> position,
                  markers |-> handleDecorations(doc, cell, position)]
        /\ UNCHANGED <<doc, pluginState, listeners, lastColumnResizable, drags, edits,
                       commits>>

SpecDecorations == InitParsed /\ [][Decorate]_vars

\* the cell at table position pos occupies a slot of grid row r
OccupiesRow(d, pos, r) ==
    LET map == TableMapOf(d)
    IN \E c \in 0..(map.width - 1) : MapAt(map, r * map.width + c) = pos

\* the last grid row of the cell at table position pos
LastRow(d, pos) ==
    CHOOSE r \in 0..(TableMapOf(d).height - 1) :
        OccupiesRow(d, pos, r)
        /\ \A j \in (r + 1)..(TableMapOf(d).height - 1) : ~OccupiesRow(d, pos, j)

\* the cells whose trailing border lies on the boundary that the cell at
\* table position pos ends at, along the axis
OnBoundary(d, pos, axis) ==
    {q \in CellPositions(d.table) :
        IF axis = "col" THEN LastColumn(d, q) = LastColumn(d, pos)
        ELSE LastRow(d, q) = LastRow(d, pos)}

\* C14: the decorations for an active boundary hold exactly one marker for
\* every distinct cell whose trailing border lies on the boundary, placed at
\* the end of that cell, never two markers for one cell, and none for any
\* other cell, such as one that extends across the boundary.
C14_OneMarkerPerCell ==
    (ev.type = "decorations" /\ ev.positionCell # Undefined) =>
        /\ \A i, j \in 1..Len(ev.markers) : i # j => ev.markers[i] # ev.markers[j]
        /\ {ev.markers[i] : i \in 1..Len(ev.markers)}
               = {TableStart(doc) + q + CellSize - 1 :
                     q \in OnBoundary(doc, ev.cell - TableStart(doc), ev.positionCell)}

\* C14 witness: the column boundary of a cell spanning 2 columns x 2 rows in
\* a 3x3 grid carries two markers: one for that cell, one for the cell below.
C14_Witness ==
    /\ ev.type = "decorations" /\ ev.positionCell = "col"
    /\ Len(doc.table) = 3
    /\ ev.cell = TableStart(doc) + CellPos(doc.table, 1, 1)
    /\ Len(ev.markers) = 2

(***************************************************************************)
(* The dimension of a drag, for anchors and pointer coordinates drawn from *)
(* small sets.                                                             *)
(***************************************************************************)
StartPositions == {0, 50}

StartDimensions == {20, 100}

Coordinates == {10, 50, 90}

\* a drag is in progress on the first cell of a table of plain cells
InitDragging ==
    /\ doc = [pre |-> 0, table |-> <<PlainRow, PlainRow>>]
    /\ pluginState \in {ResizeState(TableStart(doc) + CellPos(doc.table, 1, 1),
                                    Dragging(sp, sd), position) :
                           sp \in StartPositions, sd \in StartDimensions,
                           position \in {"col", "row", Undefined}}
    /\ listeners = 1
    /\ lastColumnResizable = TRUE
    /\ drags = 1
    /\ edits = 0
    /\ commits = 0
    /\ ev = EvNone

\* the call of draggedDimension made by move and by finish for a pointer event
Dragged ==
    \E x \in Coordinates, y \in Coordinates :
        /\ IsDragging(pluginState.dragging)
        /\ ev' = [type |-> "dragged", x |-> x, y |-> y,
                  dimension |-> draggedDimension(pluginState.position,
                                                 pluginState.dragging, x, y, cellMin)]
        /\ UNCHANGED <<doc, pluginState, listeners, lastColumnResizable, drags, edits,
                       commits>>

SpecDragged == InitDragging /\ [][Dragged]_vars

\* C15: the dimension of a drag is max(cellMin, anchorDimension +
\* (coordinate - anchorCoordinate)) with the coordinate taken along the
\* drag's axis; it is never below cellMin; for anchor dimension 100, anchor
\* coordinate 50 and coordinate 10 it is 60.
C15_DraggedDimension ==
    ev.type = "dragged" =>
        LET anchor == pluginState.dragging
            coordinate == IF pluginState.position = "col" THEN ev.x ELSE ev.y
            moved == anchor.startDimension + (coordinate - anchor.startPosition)
        IN /\ ev.dimension >= cellMin
           /\ pluginState.position \in {"col", "row"} =>
                  /\ moved >= cellMin => ev.dimension = moved
                  /\ moved < cellMin => ev.dimension = cellMin
                  /\ (anchor.startDimension = 100 /\ anchor.startPosition = 50
                      /\ coordinate = 10) => ev.dimension = 60

\* C15 witness: the example of the claim, on the column axis.
C15_Witness ==
    /\ ev.type = "dragged" /\ pluginState.position = "col"
    /\ pluginState.dragging = Dragging(50, 100)
    /\ ev.x = 10 /\ ev.y = 90 /\ ev.dimension = 60

\* C16: in every document, parsed from markup or produced by a resize
\* commit, a cell's colwidth, when present, has length exactly colspan.
C16_ColwidthLengthIsColspan ==
    \A ri \in CellIds(doc.table) :
        LET attrs == doc.table[ri[1]][ri[2]]
        IN attrs.colwidth = <<>> \/ Len(attrs.colwidth) = attrs.colspan

\* C16 witness: a cell of colspan 2 whose markup listed one width was parsed
\* without widths and then given two entries by a redistribution.
C16_Witness ==
    /\ ev.type = "redistribute" /\ Len(doc.table) = 3
    /\ doc.table[1][1] = Cell(2, 1, <<0, 150>>)
    /\ doc.table[3][1] = Cell(1, 1, <<70>>)

(***************************************************************************)
(* The grid map of well-typed tables: rows of one or two cells with spans  *)
(* of one or two.                                                          *)
(***************************************************************************)
MaxGridRows == 2

SpanCells == {Cell(cs, rs, <<>>) : cs \in 1..2, rs \in 1..2}

GridRows == {<<a>> : a \in SpanCells} \cup {<<a, b>> : a \in SpanCells, b \in SpanCells}

GridTables == UNION {[1..n -> GridRows] : n \in 1..MaxGridRows}

InitGrid ==
    /\ doc \in {[pre |-> 0, table |-> t] : t \in GridTables}
    /\ pluginState = ResizeState(-1, DragFalse, Undefined)
    /\ listeners = 0
    /\ lastColumnResizable = TRUE
    /\ drags = 0
    /\ edits = 0
    /\ commits = 0
    /\ ev = EvNone

\* TableMap.get for the table of the document
BuildMap ==
    /\ ev' = [type |-> "tablemap", map |-> TableMapOf(doc)]
    /\ UNCHANGED <<doc, pluginState, listeners, lastColumnResizable, drags, edits,
                   commits>>

SpecGrid == InitGrid /\ [][BuildMap]_vars

\* the number of grid columns row r asks for: one per column of each of its
\* cells and of each cell of an earlier row that spans down into it
Contribution(tbl, r) ==
    Cardinality({x \in (1..r) \X (1..MaxWidth) \X (1..MaxWidth) :
                    /\ x[2] <= Len(tbl[x[1]])
                    /\ x[3] <= tbl[x[1]][x[2]].colspan
                    /\ (x[1] = r \/ x[1] + tbl[x[1]][x[2]].rowspan > r)})

\* the width is the largest contribution of a row
WidthIsMaxContribution(tbl, width) ==
    /\ \A r \in 1..Len(tbl) : Contribution(tbl, r) <= width
    /\ \E r \in 1..Len(tbl) : Contribution(tbl, r) = width

CurrentDimension(attrs, axis, measuredWidth, measuredHeight) ==
    LET unset == {i \in 1..attrs.colspan : Entry(attrs, i) = 0}
        RECURSIVE Stored(_)
        Stored(i) == IF i = 0 THEN 0 ELSE Stored(i - 1) + Entry(attrs, i)
    IN IF axis = "col"
       THEN IF Entry(attrs, attrs.colspan) # 0 THEN Entry(attrs, attrs.colspan)
            ELSE CHOOSE v \in 0..measuredWidth :
                     v * Cardinality(unset) + Stored(attrs.colspan) = measuredWidth
       ELSE CHOOSE v \in 0..measuredHeight : v * attrs.rowspan = measuredHeight

\* C18: a pointer-down in Hover begins a drag: the active edge and the axis
\* are kept, listeners are attached, and the anchor is the pointer's
\* coordinate along the axis (x for column, y for row) with the edge's current
\* dimension along it; a pointer-down in Idle or while a drag is recorded
\* changes no state, attaches no listener and is not handled.
C18_PointerDownBeginsDragInHover ==
    [][ev'.type = "mousedown" =>
           IF Hover
           THEN /\ IsDragging(pluginState'.dragging)
                /\ pluginState'.activeHandle = pluginState.activeHandle
                /\ pluginState'.position = pluginState.position
                /\ listeners' = listeners + 1
                /\ pluginState.position \in {"col", "row"} =>
                       /\ pluginState'.dragging.startPosition
                              = (IF pluginState.position = "col" THEN ev'.x ELSE ev'.y)
                       /\ \E w \in OffsetWidths, h \in OffsetHeights :
                              pluginState'.dragging.startDimension
                                  = CurrentDimension(
                                        NodeAt(doc.table,
                                               pluginState.activeHandle - TableStart(doc)),
                                        pluginState.position, w, h)
           ELSE /\ pluginState' = pluginState
                /\ listeners' = listeners
                /\ ~ev'.handled
                /\ ev'.dispatches = 0]_vars

\* C18 witness: a pointer-down on a row edge has begun a drag anchored at y.
C18_Witness ==
    /\ ev.type = "mousedown" /\ ev.handled /\ DraggingState
    /\ pluginState.position = "row" /\ listeners = 1
    /\ pluginState.dragging.startPosition = ev.y /\ ev.x # ev.y

\* C19: the commit of a drag applies the dimension along the drag's own
\* axis: a release of a row-axis drag leaves every cell's colwidth unchanged.
C19_CommitAlongOwnAxis ==
    [][(DraggingState /\ IsRelease(ev') /\ pluginState.position = "row") =>
           \A ri \in CellIds(doc.table) :
               doc'.table[ri[1]][ri[2]].colwidth = doc.table[ri[1]][ri[2]].colwidth]_vars

\* C20: outside a drag, after a pointer move that locates an edge and is not
\* suppressed, the stored active edge is the located cell and the stored
\* axis is the located axis.
C20_MoveStoresEdgeAndAxis ==
    [][(~IsDragging(pluginState.dragging) /\ ev'.type = "mousemove" /\ ev'.cell # -1
        /\ ~(~lastColumnResizable /\ InLastColumn(doc, ev'.cell))) =>
           (pluginState'.activeHandle = ev'.cell
            /\ pluginState'.position = ev'.positionCell)]_vars

\* C21: in every reachable state the axis is none exactly when the active
\* edge is none: whenever an active edge is set the axis is column or row.
C21_AxisIffEdge ==
    /\ (pluginState.position = Undefined) <=> (pluginState.activeHandle = -1)
    /\ pluginState.activeHandle > -1 => pluginState.position \in {"col", "row"}

(***************************************************************************)
(* The edge locator applied to a pointer position over a table.            *)
(***************************************************************************)
\* the side of the target cell that handleMouseMove finds the pointer on
HitSide(d, map, x, y, minSz) ==
    LET target == domCellAround(map, x, y)
        rect == getBoundingClientRect(d.table, map, target)
    IN IF target = 0 THEN "none"
       ELSE IF x - rect.left <= minSz THEN "left"
       ELSE IF rect.right - x <= minSz THEN "right"
       ELSE IF rect.top - y >= -minSz THEN "top"
       ELSE IF y - rect.bottom >= -minSz THEN "bottom"
       ELSE "none"

\* tables whose spanning cells have several neighbours along one border
EdgeTables ==
    { << <<PlainCell, Cell(1, 2, <<>>)>>, <<PlainCell>> >>,
      << PlainRow, <<Cell(2, 1, <<>>)>> >>,
      << <<PlainCell, Cell(2, 2, <<>>)>>, <<PlainCell>> >>,
      << <<PlainCell, PlainCell, PlainCell>>, <<PlainCell, Cell(2, 1, <<>>)>> >> }

\* pointer positions minSize inside every slot's borders and in its middle
EdgeOffsets(px) == {minSize, px \div 2, px - minSize}

EdgeXCoords == {c * ColPx + o : c \in 0..(MaxWidth - 1), o \in EdgeOffsets(ColPx)}

EdgeYCoords == {r * RowPx + o : r \in 0..2, o \in EdgeOffsets(RowPx)}

InitEdge ==
    /\ doc \in {[pre |-> n, table |-> tbl] :
                   n \in 0..MaxPre,
                   tbl \in EdgeTables \cup {ParseTable(dom) : dom \in DomTables}}
    /\ pluginState = ResizeState(-1, DragFalse, Undefined)
    /\ listeners = 0
    /\ lastColumnResizable = TRUE
    /\ drags = 0
    /\ edits = 0
    /\ commits = 0
    /\ ev = EvNone

\* edgeCell as handleMouseMove calls it for a pointer position
Locate ==
    \E x \in EdgeXCoords, y \in EdgeYCoords :
        LET map == TableMapOf(doc)
            side == HitSide(doc, map, x, y, minSize)
        IN /\ ev' = [type |-> "edge", x |-> x, y |-> y, side |-> side,
                     target |-> domCellAround(map, x, y),
                     cell |-> IF side = "none" THEN -1
                              ELSE edgeCell(doc, map, x, y, side, minSize)]
           /\ UNCHANGED <<doc, pluginState, listeners, lastColumnResizable,
                          drags, edits, commits>>

SpecEdge == InitEdge /\ [][Locate]_vars

\* the first grid row of the cell at table position pos
FirstRow(d, pos) ==
    CHOOSE r \in 0..(TableMapOf(d).height - 1) :
        OccupiesRow(d, pos, r) /\ \A j \in 0..(r - 1) : ~OccupiesRow(d, pos, j)

\* C22: the edge locator attributes a shared border to exactly one cell: a
\* hit on the right or bottom edge of a cell resolves to that cell; a hit on
\* the left (top) edge of cell B resolves to the cell occupying the slot
\* immediately left of (above) B's top-left slot, whose trailing column (row)
\* boundary is B's leading one; and when B's top-left slot is in grid column
\* 0 (row 0) the result is none.
C22_SharedBorderOneCell ==
    (ev.type = "edge" /\ ev.side # "none") =>
        LET start == TableStart(doc)
            map == TableMapOf(doc)
            B == ev.target
            row == FirstRow(doc, B)
            col == FirstColumn(doc, B)
            found == ev.cell - start
        IN IF ev.side \in {"right", "bottom"} THEN ev.cell = start + B
           ELSE IF ev.side = "left"
           THEN IF col = 0 THEN ev.cell = -1
                ELSE /\ ev.cell # -1
                     /\ found \in CellPositions(doc.table)
                     /\ found = MapAt(map, row * map.width + col - 1)
                     /\ LastColumn(doc, found) + 1 = col
           ELSE IF row = 0 THEN ev.cell = -1
                ELSE /\ ev.cell # -1
                     /\ found \in CellPositions(doc.table)
                     /\ found = MapAt(map, (row - 1) * map.width + col)
                     /\ LastRow(doc, found) + 1 = row

\* C22 witness: the left edge of a cell spanning two rows was hit beside its
\* second row, and the located cell is the one left of its first row.
C22_Witness ==
    /\ ev.type = "edge" /\ ev.side = "left"
    /\ doc.table = << <<PlainCell, Cell(1, 2, <<>>)>>, <<PlainCell>> >>
    /\ ev.y >= RowPx
    /\ ev.target = CellPos(doc.table, 1, 2)
    /\ ev.cell = TableStart(doc) + CellPos(doc.table, 1, 1)

\* C23: after a redistribution for grid column k with dimension w, every
\* distinct cell occupying column k in any grid row stores w at its local
\* index for k, and each such cell received at most one attribute update in
\* the transaction, also when it spans several rows; only cells occupying
\* column k were updated.
C23_EveryCellStoresOnce ==
    ev.type = "redistribute" =>
        LET k == TargetColumn(doc, ev.cell)
        IN /\ AllStore(doc, k, ev.dimension)
           /\ \A i \in 1..Len(ev.updates) :
                  /\ Occupies(doc, ev.updates[i] - TableStart(doc), k)
                  /\ \A j \in 1..Len(ev.updates) :
                         i # j => ev.updates[i] # ev.updates[j]

\* C23 witness: the second column under a cell spanning two columns and two
\* rows was resized: that cell and the cell below it got one update each.
C23_Witness ==
    /\ ev.type = "redistribute" /\ ev.dimension = 150 /\ commits = 1
    /\ Len(doc.table) = 3
    /\ doc.table[1][1] = Cell(2, 2, <<60, 150>>)
    /\ doc.table[3][2] = Cell(1, 1, <<150>>)
    /\ Len(ev.updates) = 2

=============================================================================
